---- MODULE Spec2Model ----
(***************************************************************************)
(* cargo-bom (src/main.rs): the Bill-of-Materials pipeline.                *)
(*                                                                         *)
(*   Spec         real_main: collect, build the entry set, write the       *)
(*                table, dump the license files.                           *)
(*   SpecCollect  top_level_dependencies / all_dependencies over bounded   *)
(*                workspaces and resolved graphs.                          *)
(*   SpecLic      package_licenses and Licenses::fmt over bounded license  *)
(*                expressions.                                             *)
(*                                                                         *)
(* Strings are sequences of one-character strings, so that split, trim,    *)
(* starts_with, join and the byte order of BTreeSet<&str> are computed.    *)
(* A BTreeSet is its strictly increasing sequence.  The resolver, read_dir *)
(* and the license files are the environment: each call either fails or    *)
(* yields a value drawn from a bounded set.  Writes to standard output are *)
(* taken to succeed.                                                       *)
(***************************************************************************)
EXTENDS Integers, Sequences, FiniteSets, TLC

VARIABLES
    all,                \* args.all
    members,            \* Vec<Package>: the workspace members
    package_ids,        \* PackageSet: the resolved ids, in package_ids() order
    deps,               \* member -> its declared dependencies (Package::dependencies)
    pc,                 \* position in real_main / in the function under check
    err,                \* which `?` returned the error, "" if none
    dependencies,       \* BTreeSet<Package> returned by the collector
    di,                 \* position of `for package in &dependencies`
    packages,           \* BTreeSet<(name, version, licenses, license_files)>
    out,                \* what has reached standard output
    cur,                \* position of `for (..) in packages` (the dump)
    files_left,         \* rest of `for file in license_files`
    licenses_to_print,  \* the counter of the same name
    buf,                \* the reusable read buffer
    input,              \* SpecLic: how the license expression was drawn
    license,            \* SpecLic: metadata.license
    license_file,       \* SpecLic: metadata.license_file
    licenses            \* SpecLic: the Licenses value and its Display string

vars == <<all, members, package_ids, deps, pc, err, dependencies, di, packages,
          out, cur, files_left, licenses_to_print, buf,
          input, license, license_file, licenses>>

-----------------------------------------------------------------------------
(* Bounds                                                                  *)

\* longest license expression drawn character by character
MaxLen == 4
\* longest license name drawn for the "A sep B" expressions
MaxNameLen == 2
\* most dependencies declared in one workspace (all members together)
MaxDeps == 2
\* most entries in one package directory
MaxFiles == 2

-----------------------------------------------------------------------------
(* Strings                                                                 *)

Range(s) == {s[i] : i \in DOMAIN s}

Min(a, b) == IF a < b THEN a ELSE b

\* Option<T>
None == [some |-> FALSE]
Some(v) == [some |-> TRUE, v |-> v]

\* the characters used, in byte order
Ascii ==
    <<" ", ",", "-", ".", "/", "0", "1", "2", "3", "4", "5", "6", "7", "8", "9",
      "A", "B", "C", "D", "E", "F", "G", "H", "I", "J", "K", "L", "M", "N", "O",
      "P", "Q", "R", "S", "T", "U", "V", "W", "X", "Y", "Z",
      "a", "b", "c", "d", "e", "f", "g", "h", "i", "j", "k", "l", "m", "n", "o",
      "p", "q", "r", "s", "t", "u", "v", "w", "x", "y", "z">>

Code(c) == CHOOSE i \in DOMAIN Ascii : Ascii[i] = c

\* Ord for str / String: byte-wise lexicographic
StrLess(a, b) ==
    \E i \in 1..(Min(Len(a), Len(b)) + 1) :
        /\ \A j \in 1..(i - 1) : a[j] = b[j]
        /\ \/ i > Len(a) /\ i <= Len(b)
           \/ i <= Len(a) /\ i <= Len(b) /\ Code(a[i]) < Code(b[i])

\* all strings over alphabet A of length at most n
StringsUpTo(A, n) == UNION {[1..k -> A] : k \in 0..n}

\* str::starts_with
starts_with(s, prefix) ==
    /\ Len(prefix) <= Len(s)
    /\ SubSeq(s, 1, Len(prefix)) = prefix

\* position of the first match of pat in s at or after i, 0 if none
FindFrom(s, pat, i) ==
    LET hits == {k \in i..(Len(s) - Len(pat) + 1) :
                    SubSeq(s, k, k + Len(pat) - 1) = pat}
    IN  IF hits = {} THEN 0 ELSE CHOOSE k \in hits : \A m \in hits : k <= m

\* str::split(pat): the pieces between the non-overlapping matches of pat,
\* found left to right; empty pieces are kept
RECURSIVE split(_, _)
split(s, pat) ==
    LET k == FindFrom(s, pat, 1)
    IN  IF k = 0 THEN <<s>>
        ELSE <<SubSeq(s, 1, k - 1)>> \o split(SubSeq(s, k + Len(pat), Len(s)), pat)

IsWhite(c) == c = " "

\* str::trim
trim(s) ==
    LET keep == {i \in DOMAIN s : ~IsWhite(s[i])}
    IN  IF keep = {} THEN <<>>
        ELSE SubSeq(s, CHOOSE i \in keep : \A j \in keep : i <= j,
                       CHOOSE i \in keep : \A j \in keep : i >= j)

\* Iterator::flatten over a sequence of sequences
RECURSIVE flatten(_)
flatten(ss) == IF ss = <<>> THEN <<>> ELSE Head(ss) \o flatten(Tail(ss))

\* [String]::join
RECURSIVE join(_, _)
join(ss, sep) ==
    IF ss = <<>> THEN <<>>
    ELSE IF Len(ss) = 1 THEN ss[1]
    ELSE ss[1] \o sep \o join(Tail(ss), sep)

OR_ == <<"O", "R">>
AND_ == <<"A", "N", "D">>
SLASH == <<"/">>
COMMA_SP == <<",", " ">>
SPECIFIED_IN_FILE ==
    <<"S", "p", "e", "c", "i", "f", "i", "e", "d", " ", "i", "n", " ",
      "l", "i", "c", "e", "n", "s", "e", " ", "f", "i", "l", "e">>
MISSING == <<"M", "i", "s", "s", "i", "n", "g">>

-----------------------------------------------------------------------------
(* package_licenses and Licenses::fmt                                      *)

\* BTreeSet<&str>::insert: the set is the strictly increasing sequence
StrSetInsert(set, s) ==
    IF s \in Range(set) THEN set
    ELSE LET k == Cardinality({i \in DOMAIN set : StrLess(set[i], s)})
         IN  SubSeq(set, 1, k) \o <<s>> \o SubSeq(set, k + 1, Len(set))

\* .collect::<BTreeSet<&str>>()
RECURSIVE CollectStrSet(_)
CollectStrSet(ss) ==
    IF ss = <<>> THEN <<>>
    ELSE StrSetInsert(CollectStrSet(SubSeq(ss, 1, Len(ss) - 1)), ss[Len(ss)])

\* .map(f) with f = |s| s.split(pat), then .flatten()
SplitEach(ss, pat) == flatten([i \in DOMAIN ss |-> split(ss[i], pat)])

\* package_licenses with the two tests in the other order
package_licenses_file_first(lic, lic_file) ==
    IF lic_file.some THEN [tag |-> "File", file |-> lic_file.v]
    ELSE IF lic.some
    THEN [tag |-> "Licenses",
          names |-> CollectStrSet(
              LET toks == SplitEach(SplitEach(split(lic.v, OR_), AND_), SLASH)
              IN  [i \in DOMAIN toks |-> trim(toks[i])])]
    ELSE [tag |-> "Missing"]

\* package_licenses without .map(str::trim)
package_licenses_no_trim(lic, lic_file) ==
    IF lic.some
    THEN [tag |-> "Licenses",
          names |-> CollectStrSet(SplitEach(SplitEach(split(lic.v, OR_), AND_), SLASH))]
    ELSE IF lic_file.some THEN [tag |-> "File", file |-> lic_file.v]
    ELSE [tag |-> "Missing"]

\* package_licenses(package), on the two metadata fields it reads
package_licenses(lic, lic_file) ==
    IF lic.some
    THEN [tag |-> "Licenses",
          names |-> CollectStrSet(
              LET toks == SplitEach(SplitEach(split(lic.v, OR_), AND_), SLASH)
              IN  [i \in DOMAIN toks |-> trim(toks[i])])]
    ELSE IF lic_file.some THEN [tag |-> "File", file |-> lic_file.v]
    ELSE [tag |-> "Missing"]

\* <Licenses as Display>::fmt
fmt(l) ==
    IF l.tag = "File" THEN SPECIFIED_IN_FILE
    ELSE IF l.tag = "Missing" THEN MISSING
    ELSE join(l.names, COMMA_SP)

-----------------------------------------------------------------------------
(* Packages, dependencies and the resolved graph (cargo's types, as far as *)
(* main.rs reads them)                                                     *)

\* the packages the resolver may hand over, numbered in PackageId order:
\* 1 = a 1.0.0, 2 = a 2.0.0, 3 = b 1.0.0
Pkgs == {1, 2, 3}
\* Package::name
PkgName == <<<<"a">>, <<"a">>, <<"b">>>>
\* Package::version
PkgVersion == <<<<1, 0, 0>>, <<2, 0, 0>>, <<1, 0, 0>>>>
\* manifest().metadata().license
PkgLicense ==
    <<Some(<<"M", "I", "T", " ", "O", "R", " ", "A", "p", "a", "c", "h", "e", "-", "2", ".", "0">>),
      None,
      Some(<<"M", "I", "T", "/", "A", "p", "a", "c", "h", "e", "-", "2", ".", "0">>)>>
\* manifest().metadata().license_file
PkgLicenseFile == <<None, Some(<<"L", "I", "C", "E", "N", "S", "E", "-", "M", "I", "T">>), None>>

\* dependency::Kind
Kinds == {"Normal", "Build", "Development"}

\* the matching rules a manifest may state: a name with an exact version
\* requirement, or the name "a" with any version
DepRules ==
    {[name |-> PkgName[p], req |-> Some(PkgVersion[p])] : p \in Pkgs}
    \cup {[name |-> PkgName[1], req |-> None]}

\* Dependency
Dependencies == {[kind |-> k, rule |-> r] : k \in Kinds, r \in DepRules}

\* Dependency::matches_id
matches_id(d, id) ==
    /\ PkgName[id] = d.rule.name
    /\ ~d.rule.req.some \/ d.rule.req.v = PkgVersion[id]

\* Iterator::find over package_ids.package_ids(): the first id, in the
\* PackageSet's own iteration order, that the dependency matches (0: None)
find(ids, d) ==
    LET hits == {i \in DOMAIN ids : matches_id(d, ids[i])}
    IN  IF hits = {} THEN 0 ELSE ids[CHOOSE i \in hits : \A j \in hits : i <= j]

\* BTreeSet<Package>::insert without the duplicate check
PkgSetInsertDup(set, p) ==
    LET k == Cardinality({i \in DOMAIN set : set[i] < p})
    IN  SubSeq(set, 1, k) \o <<p>> \o SubSeq(set, k + 1, Len(set))

\* BTreeSet<Package>::insert: the set is the strictly increasing sequence
PkgSetInsert(set, p) ==
    IF p \in Range(set) THEN set
    ELSE LET k == Cardinality({i \in DOMAIN set : set[i] < p})
         IN  SubSeq(set, 1, k) \o <<p>> \o SubSeq(set, k + 1, Len(set))

\* BTreeSet<Package>::remove
PkgSetRemove(set, p) == SelectSeq(set, LAMBDA q : q # p)

\* the kind filter that lets every kind through
is_kept_any(d) == TRUE

\* the match on dependency.kind(): Normal goes on, Build and Development
\* `continue`
is_kept(d) == d.kind = "Normal"

\* the loop body that treats an unmatched dependency as an error
dependency_step_strict(d, ids, unavailable) ==
    IF ~is_kept(d) THEN [act |-> "continue"]
    ELSE LET dep == find(ids, d)
         IN  IF dep = 0 THEN [act |-> "return_err"]
             ELSE IF dep \in unavailable THEN [act |-> "return_err"]
             ELSE [act |-> "insert", package |-> dep]

\* lines 151-163, the body of `for dependency in member.dependencies()`:
\* what it does for one dependency; `unavailable` are the ids get_one fails on
dependency_step(d, ids, unavailable) ==
    IF ~is_kept(d) THEN [act |-> "continue"]
    ELSE LET dep == find(ids, d)
         IN  IF dep = 0 THEN [act |-> "continue"]
             ELSE IF dep \in unavailable THEN [act |-> "return_err"]
             ELSE [act |-> "insert", package |-> dep]

\* the two nested loops of top_level_dependencies over `ds`, the members'
\* declared dependencies in iteration order
RECURSIVE insert_top_level(_, _, _, _)
insert_top_level(set, ds, ids, unavailable) ==
    IF ds = <<>> THEN [ok |-> TRUE, set |-> set]
    ELSE LET st == dependency_step(Head(ds), ids, unavailable)
         IN  IF st.act = "continue"
             THEN insert_top_level(set, Tail(ds), ids, unavailable)
             ELSE IF st.act = "return_err" THEN [ok |-> FALSE, set |-> <<>>]
             ELSE insert_top_level(PkgSetInsert(set, st.package), Tail(ds), ids, unavailable)

\* `for member in members { dependencies.remove(member); }`
RECURSIVE remove_members(_, _)
remove_members(set, mem) ==
    IF mem = <<>> THEN set
    ELSE remove_members(PkgSetRemove(set, Head(mem)), Tail(mem))

\* top_level_dependencies without the second loop
top_level_dependencies_keep_members(mem, declared, ids, unavailable) ==
    insert_top_level(<<>>, flatten([i \in DOMAIN mem |-> declared[mem[i]]]),
                     ids, unavailable)

\* top_level_dependencies(members, package_ids)
top_level_dependencies(mem, declared, ids, unavailable) ==
    LET r == insert_top_level(<<>>, flatten([i \in DOMAIN mem |-> declared[mem[i]]]),
                              ids, unavailable)
    IN  IF r.ok THEN [ok |-> TRUE, set |-> remove_members(r.set, mem)] ELSE r

\* all_dependencies(members, package_ids, resolve), from the i-th id of
\* resolve.iter() on; the resolve holds the ids of the PackageSet
RECURSIVE all_dependencies_from(_, _, _, _, _)
all_dependencies_from(set, i, mem, ids, unavailable) ==
    IF i > Len(ids) THEN [ok |-> TRUE, set |-> set]
    ELSE IF ids[i] \in unavailable THEN [ok |-> FALSE, set |-> <<>>]
    ELSE IF ids[i] \in Range(mem)
    THEN all_dependencies_from(set, i + 1, mem, ids, unavailable)
    ELSE all_dependencies_from(PkgSetInsert(set, ids[i]), i + 1, mem, ids, unavailable)

all_dependencies(mem, ids, unavailable) ==
    all_dependencies_from(<<>>, 1, mem, ids, unavailable)

\* a set of packages as a Vec / iteration order: ascending, or descending
RECURSIVE Ascending(_)
Ascending(S) ==
    IF S = {} THEN <<>>
    ELSE LET m == CHOOSE x \in S : \A y \in S : x <= y
         IN  <<m>> \o Ascending(S \ {m})

Reverse(s) == [i \in DOMAIN s |-> s[Len(s) + 1 - i]]

\* every way of declaring at most n dependencies, drawn from D, in a
\* workspace with the members M
RECURSIVE Declarations(_, _, _)
Declarations(M, D, n) ==
    IF M = {} THEN {<<>>}
    ELSE LET m == CHOOSE x \in M : TRUE
         IN  UNION {{(m :> ds) @@ rest : rest \in Declarations(M \ {m}, D, n - Len(ds))} :
                        ds \in StringsUpTo(D, n)}

\* get_one fails on no package, or on one package that has to be fetched
Unavailable == {{}} \cup {{p} : p \in Range(package_ids) \ Range(members)}

\* real_main, lines 83-87: the collector is called; its error ends the run
Collect ==
    /\ pc = "collect"
    /\ \E unavailable \in Unavailable :
          LET r == IF all THEN all_dependencies(members, package_ids, unavailable)
                   ELSE top_level_dependencies(members, deps, package_ids, unavailable)
          IN  \/ /\ r.ok
                 /\ dependencies' = r.set
                 /\ pc' = "entries"
                 /\ di' = 1
                 /\ err' = err
              \/ /\ ~r.ok
                 /\ pc' = "error"
                 /\ err' = "get_one"
                 /\ UNCHANGED <<dependencies, di>>
    /\ UNCHANGED <<all, members, package_ids, deps, packages, out, cur, files_left,
                   licenses_to_print, buf, input, license, license_file, licenses>>

InitCollect ==
    /\ pc = "collect"
    /\ all \in BOOLEAN
    /\ \E M \in SUBSET Pkgs, R \in SUBSET Pkgs :
          /\ Cardinality(M) \in 1..2
          /\ M \subseteq R
          /\ members = Ascending(M)
          /\ package_ids \in {Ascending(R), Reverse(Ascending(R))}
          /\ deps \in Declarations(M, Dependencies, MaxDeps)
    /\ err = "" /\ dependencies = <<>> /\ di = 0 /\ packages = <<>>
    /\ out = <<>> /\ cur = 0 /\ files_left = <<>> /\ licenses_to_print = 0
    /\ buf = <<>>
    /\ input = [kind |-> "none"] /\ license = None /\ license_file = None
    /\ licenses = [tag |-> "none"]

SpecCollect == InitCollect /\ [][Collect]_vars

-----------------------------------------------------------------------------
(* real_main: the entry set, the table and the license text dump           *)

\* format!("{}", n) for an unsigned number
RECURSIVE to_decimal(_)
to_decimal(n) ==
    IF n < 10 THEN <<Ascii[Code("0") + n]>>
    ELSE to_decimal(n \div 10) \o <<Ascii[Code("0") + (n % 10)]>>

\* format!("{}", package.version())
format_version(v) ==
    to_decimal(v[1]) \o <<".">> \o to_decimal(v[2]) \o <<".">> \o to_decimal(v[3])

S_LICENSE == <<"L", "I", "C", "E", "N", "S", "E">>
S_UNLICENSE == <<"U", "N", "L", "I", "C", "E", "N", "S", "E">>
S_LICENSE_APACHE == <<"L", "I", "C", "E", "N", "S", "E", "-", "A", "P", "A", "C", "H", "E">>
S_README == <<"R", "E", "A", "D", "M", "E">>

\* static LICENCE_FILE_NAMES
LICENCE_FILE_NAMES == <<S_LICENSE, S_UNLICENSE>>

\* what read_dir may yield for one entry: a file name, or an entry that is
\* skipped (an Err entry, or a name that is not UTF-8)
DirEntries == {Some(S_LICENSE), Some(S_LICENSE_APACHE), Some(S_UNLICENSE),
               Some(S_README), None}

\* the directory listings: at most MaxFiles entries, no entry twice, in
\* directory-iteration order
DirListings ==
    {l \in StringsUpTo(DirEntries, MaxFiles) :
        \A i \in DOMAIN l, j \in DOMAIN l : i # j => l[i] # l[j]}

\* entry.path(): the package's directory and the file name
Path(p, name) == [dir |-> p, name |-> name]

\* Ord for PathBuf
PathLess(a, b) == a.dir < b.dir \/ (a.dir = b.dir /\ StrLess(a.name, b.name))

\* Ord for Vec<PathBuf>: lexicographic
VecLess(a, b) ==
    \E i \in 1..(Min(Len(a), Len(b)) + 1) :
        /\ \A j \in 1..(i - 1) : a[j] = b[j]
        /\ \/ i > Len(a) /\ i <= Len(b)
           \/ i <= Len(a) /\ i <= Len(b) /\ PathLess(a[i], b[i])

\* the body of `for entry in path.read_dir()?` for one entry
entry_license_files(p, entry) ==
    IF ~entry.some THEN <<>>
    ELSE flatten([k \in DOMAIN LICENCE_FILE_NAMES |->
                    IF starts_with(entry.v, LICENCE_FILE_NAMES[k])
                    THEN <<Path(p, entry.v)>> ELSE <<>>])

\* package_license_files(package), given what read_dir yields
package_license_files(p, listing) ==
    flatten([i \in DOMAIN listing |-> entry_license_files(p, listing[i])])

\* Ord for the tuple (name, version, licenses, license_files)
EntryLess(a, b) ==
    \/ StrLess(a.name, b.name)
    \/ a.name = b.name /\ StrLess(a.version, b.version)
    \/ a.name = b.name /\ a.version = b.version /\ StrLess(a.licenses, b.licenses)
    \/ /\ a.name = b.name /\ a.version = b.version /\ a.licenses = b.licenses
       /\ VecLess(a.license_files, b.license_files)

\* BTreeSet<(String, String, String, Vec<PathBuf>)>::insert
EntrySetInsert(set, e) ==
    IF e \in Range(set) THEN set
    ELSE LET k == Cardinality({i \in DOMAIN set : EntryLess(set[i], e)})
         IN  SubSeq(set, 1, k) \o <<e>> \o SubSeq(set, k + 1, Len(set))

\* lines 91-95: the tuple built for one package
Entry(p, license_files) ==
    [name |-> PkgName[p],
     version |-> format_version(PkgVersion[p]),
     licenses |-> fmt(package_licenses(PkgLicense[p], PkgLicenseFile[p])),
     license_files |-> license_files]

\* lines 89-96, one iteration of `for package in &dependencies`:
\* read_dir fails (the `?` ends the run), or the tuple is inserted
BuildEntry ==
    /\ pc = "entries"
    /\ di <= Len(dependencies)
    /\ \/ /\ pc' = "error"
          /\ err' = "read_dir"
          /\ UNCHANGED <<packages, di>>
       \/ \E listing \in DirListings :
             /\ packages' = EntrySetInsert(packages,
                                Entry(dependencies[di],
                                      package_license_files(dependencies[di], listing)))
             /\ di' = di + 1
             /\ UNCHANGED <<pc, err>>
    /\ UNCHANGED <<all, members, package_ids, deps, dependencies, out, cur, files_left,
                   licenses_to_print, buf, input, license, license_file, licenses>>

\* the table is written although packages are still to be scanned
entries_built_early(i, set) == TRUE

\* `for package in &dependencies` has run to its end
entries_built(i, set) == i > Len(set)

\* the lines the TabWriter holds, as written by tw.flush(), and writeln!(out)
Table(set) ==
    <<[t |-> "header"], [t |-> "rule"]>>
    \o [i \in DOMAIN set |-> [t |-> "row", name |-> set[i].name,
                              version |-> set[i].version, licenses |-> set[i].licenses]]
    \o <<[t |-> "blank"]>>

\* lines 98-114: the table reaches standard output
WriteTable ==
    /\ pc = "entries"
    /\ entries_built(di, dependencies)
    /\ out' = out \o Table(packages)
    /\ pc' = "dump"
    /\ cur' = 1
    /\ UNCHANGED <<all, members, package_ids, deps, err, dependencies, di, packages,
                   files_left, licenses_to_print, buf,
                   input, license, license_file, licenses>>

\* lines 116-124: the next tuple; one without license files is skipped,
\* otherwise the BEGIN line is written
BeginBlock ==
    /\ pc = "dump"
    /\ cur <= Len(packages)
    /\ LET e == packages[cur]
       IN  \/ /\ e.license_files = <<>>
              /\ cur' = cur + 1
              /\ UNCHANGED <<pc, out, files_left, licenses_to_print, buf>>
           \/ /\ e.license_files # <<>>
              /\ out' = out \o <<[t |-> "begin", name |-> e.name, version |-> e.version]>>
              /\ buf' = <<>>
              /\ licenses_to_print' = Len(e.license_files)
              /\ files_left' = e.license_files
              /\ pc' = "block"
              /\ cur' = cur
    /\ UNCHANGED <<all, members, package_ids, deps, err, dependencies, di, packages,
                   input, license, license_file, licenses>>

\* the NEXT LICENSE marker after every file
next_marker_due_always(n) == n > 0

\* `if licenses_to_print > 1`
next_marker_due(n) == n > 1

\* buf.clear() left out
clear_kept(b) == b

\* buf.clear()
clear(b) == <<>>

\* lines 125-134, one iteration of `for file in license_files`: open or
\* read_to_end fails (the `?` ends the run), or the buffer is written
DumpFile ==
    /\ pc = "block"
    /\ files_left # <<>>
    /\ \/ /\ pc' = "error"
          /\ err' = "file"
          /\ UNCHANGED <<out, buf, licenses_to_print, files_left>>
       \/ LET read == buf \o <<Head(files_left)>>
          IN  /\ buf' = clear(read)
              /\ files_left' = Tail(files_left)
              /\ IF next_marker_due(licenses_to_print)
                 THEN /\ out' = out \o <<[t |-> "bytes", of |-> read], [t |-> "next"]>>
                      /\ licenses_to_print' = licenses_to_print - 1
                 ELSE /\ out' = out \o <<[t |-> "bytes", of |-> read]>>
                      /\ licenses_to_print' = licenses_to_print
              /\ UNCHANGED <<pc, err>>
    /\ UNCHANGED <<all, members, package_ids, deps, dependencies, di, packages, cur,
                   input, license, license_file, licenses>>

\* lines 136-137: the END line and the blank line
EndBlock ==
    /\ pc = "block"
    /\ files_left = <<>>
    /\ LET e == packages[cur]
       IN  out' = out \o <<[t |-> "end", name |-> e.name, version |-> e.version],
                           [t |-> "blank"]>>
    /\ cur' = cur + 1
    /\ pc' = "dump"
    /\ UNCHANGED <<all, members, package_ids, deps, err, dependencies, di, packages,
                   files_left, licenses_to_print, buf,
                   input, license, license_file, licenses>>

\* lines 140-141: Ok(())
Finish ==
    /\ pc = "dump"
    /\ cur > Len(packages)
    /\ pc' = "done"
    /\ UNCHANGED <<all, members, package_ids, deps, err, dependencies, di, packages,
                   out, cur, files_left, licenses_to_print, buf,
                   input, license, license_file, licenses>>

\* the workspaces real_main is run on: one or two members of a resolved
\* graph of all three packages, each member declaring at most one dependency
Init ==
    /\ pc = "collect"
    /\ all \in BOOLEAN
    /\ members \in {<<1>>, <<1, 2>>}
    /\ package_ids = Ascending(Pkgs)
    /\ deps \in [Range(members) -> StringsUpTo(Dependencies, 1)]
    /\ err = "" /\ dependencies = <<>> /\ di = 0 /\ packages = <<>>
    /\ out = <<>> /\ cur = 0 /\ files_left = <<>> /\ licenses_to_print = 0
    /\ buf = <<>>
    /\ input = [kind |-> "none"] /\ license = None /\ license_file = None
    /\ licenses = [tag |-> "none"]

Next ==
    \/ Collect
    \/ BuildEntry
    \/ WriteTable
    \/ BeginBlock
    \/ DumpFile
    \/ EndBlock
    \/ Finish

Spec == Init /\ [][Next]_vars

-----------------------------------------------------------------------------
(* SpecLic: package_licenses applied to bounded metadata                   *)

\* the characters of the expressions drawn character by character
LicAlphabet == {"O", "R", "A", "N", "D", "/", " ", "M"}
\* the characters of the drawn license names
NameAlphabet == {"O", "R", "A", "N", "D"}

S_MIT == <<"M", "I", "T">>
S_APACHE == <<"A", "p", "a", "c", "h", "e", "-", "2", ".", "0">>
S_LICENSE_MIT == <<"L", "I", "C", "E", "N", "S", "E", "-", "M", "I", "T">>
S_COPYING == <<"C", "O", "P", "Y", "I", "N", "G">>

Contains(s, pat) == FindFrom(s, pat, 1) # 0

\* license names: non-empty, containing none of the separators
LicNames ==
    {s \in StringsUpTo(NameAlphabet, MaxNameLen) :
        s # <<>> /\ ~Contains(s, OR_) /\ ~Contains(s, AND_) /\ ~Contains(s, SLASH)}
    \cup {S_MIT, S_APACHE}

\* the three ways of writing "A sep B"
SepForms == {<<" ", "O", "R", " ">>, <<"/">>, <<" ", "A", "N", "D", " ">>}

LicenseFileNames == {S_LICENSE_MIT, S_COPYING}

InitLic ==
    /\ pc = "lic"
    /\ \/ /\ license \in {None} \cup {Some(s) : s \in StringsUpTo(LicAlphabet, MaxLen)}
          /\ input = [kind |-> "raw"]
       \/ \E a \in LicNames, b \in LicNames, sep \in SepForms :
             /\ license = Some(a \o sep \o b)
             /\ input = [kind |-> "pair", a |-> a, b |-> b, sep |-> sep]
    /\ license_file \in {None} \cup {Some(f) : f \in LicenseFileNames}
    /\ licenses = [tag |-> "none"]
    /\ all = FALSE /\ members = <<>> /\ package_ids = <<>> /\ deps = <<>>
    /\ err = "" /\ dependencies = <<>> /\ di = 0 /\ packages = <<>>
    /\ out = <<>> /\ cur = 0 /\ files_left = <<>> /\ licenses_to_print = 0
    /\ buf = <<>>

\* format!("{}", package_licenses(package))
Classify ==
    /\ pc = "lic"
    /\ LET l == package_licenses(license, license_file)
       IN  licenses' = [l EXCEPT !.tag = l.tag] @@ [display |-> fmt(l)]
    /\ pc' = "classified"
    /\ UNCHANGED <<all, members, package_ids, deps, err, dependencies, di, packages,
                   out, cur, files_left, licenses_to_print, buf,
                   input, license, license_file>>

SpecLic == InitLic /\ [][Classify]_vars

-----------------------------------------------------------------------------
(* Properties                                                              *)

\* the dependencies the members declare, as (member, position) pairs
Declared == UNION {{<<m, i>> : i \in DOMAIN deps[m]} : m \in Range(members)}

DepAt(mi) == deps[mi[1]][mi[2]]

\* the collector has returned Ok
Collected == pc # "collect" /\ err # "get_one"

Count(seq, x) == Cardinality({i \in DOMAIN seq : seq[i] = x})

\* the row of package p is among the rows of the table written
RowsOf(p) ==
    {i \in DOMAIN out :
        /\ out[i].t = "row"
        /\ out[i].name = PkgName[p]
        /\ out[i].version = format_version(PkgVersion[p])}

\* the tuples of the entry set that belong to package p
EntriesOf(p) ==
    {i \in DOMAIN packages :
        /\ packages[i].name = PkgName[p]
        /\ packages[i].version = format_version(PkgVersion[p])}

\* the block of one entry, as the output format describes it
ExpectedBlock(e) ==
    LET n == Len(e.license_files)
    IN  IF n = 0 THEN <<>>
        ELSE <<[t |-> "begin", name |-> e.name, version |-> e.version]>>
             \o flatten([i \in 1..n |->
                    IF i < n
                    THEN <<[t |-> "bytes", of |-> <<e.license_files[i]>>], [t |-> "next"]>>
                    ELSE <<[t |-> "bytes", of |-> <<e.license_files[i]>>]>>])
             \o <<[t |-> "end", name |-> e.name, version |-> e.version], [t |-> "blank"]>>

ExpectedDump(set) == flatten([i \in DOMAIN set |-> ExpectedBlock(set[i])])

\* the complete report for an entry set
FullReport(set) == Table(set) \o ExpectedDump(set)

\* C1: after a successful call of top_level_dependencies or all_dependencies,
\* no workspace member is in the returned dependency set.
C1_NoMemberCollected ==
    Collected => Range(dependencies) \cap Range(members) = {}

\* Top-level mode has returned a non-empty set although a member declares a
\* Normal dependency that resolves to another member
C1_Witness ==
    /\ Collected /\ ~all /\ dependencies # <<>>
    /\ \E mi \in Declared :
          /\ DepAt(mi).kind = "Normal"
          /\ find(package_ids, DepAt(mi)) \in Range(members) \ {mi[1]}

\* C3 as stated: in Top-level mode a Normal dependency of a member that
\* matches no package of the resolved graph makes the call fail.
C3_UnmatchedIsFatal ==
    (/\ pc # "collect" /\ ~all
     /\ \E mi \in Declared :
           DepAt(mi).kind = "Normal" /\ find(package_ids, DepAt(mi)) = 0)
    => pc = "error"

\* C3 amended: in Top-level mode an unmatched Normal dependency is skipped.
\* The call fails only if some Normal dependency matched a package (whose
\* get_one failed); when it succeeds the result is exactly the packages the
\* Normal dependencies matched, less the members.
C3_UnmatchedIsSkipped ==
    (pc # "collect" /\ ~all) =>
        /\ err = "get_one" =>
              \E mi \in Declared :
                  DepAt(mi).kind = "Normal" /\ find(package_ids, DepAt(mi)) # 0
        /\ err # "get_one" =>
              Range(dependencies) =
                  {find(package_ids, DepAt(mi)) :
                      mi \in {x \in Declared : DepAt(x).kind = "Normal"}}
                  \ (Range(members) \cup {0})

\* Top-level mode has succeeded with a non-empty result although one Normal
\* dependency matches nothing
C3_Witness ==
    /\ Collected /\ ~all /\ dependencies # <<>>
    /\ \E mi \in Declared :
          DepAt(mi).kind = "Normal" /\ find(package_ids, DepAt(mi)) = 0

\* package p is declared by the members through Build or Development
\* dependencies only
OnlyBuildOrDev(p) ==
    /\ \E mi \in Declared : DepAt(mi).kind # "Normal" /\ matches_id(DepAt(mi), p)
    /\ \A mi \in Declared : DepAt(mi).kind = "Normal" => ~matches_id(DepAt(mi), p)

\* C4: a package declared only through Build or Development dependencies is
\* not in the Top-level result; the All result holds it whenever it is in the
\* resolved graph and is no member.
C4_BuildDevExcluded ==
    Collected =>
        \A p \in Pkgs : OnlyBuildOrDev(p) =>
            /\ ~all => p \notin Range(dependencies)
            /\ (all /\ p \in Range(package_ids) \ Range(members))
                  => p \in Range(dependencies)

\* Top-level mode has returned a non-empty set that leaves out a resolved
\* package declared as a Build or Development dependency only
C4_Witness ==
    /\ Collected /\ ~all /\ dependencies # <<>>
    /\ \E p \in Range(package_ids) \ Range(members) :
          OnlyBuildOrDev(p) /\ p \notin Range(dependencies)

\* two distinct members each declare a Normal dependency that resolves to
\* the package p, which is no member
DeclaredByTwo(p) ==
    /\ p \notin Range(members)
    /\ \E a \in Declared, b \in Declared :
          /\ a[1] # b[1]
          /\ DepAt(a).kind = "Normal" /\ find(package_ids, DepAt(a)) = p
          /\ DepAt(b).kind = "Normal" /\ find(package_ids, DepAt(b)) = p

\* C8: a package that two distinct members declare as a Normal dependency is
\* in the collected set once, has one tuple in the entry set once the set is
\* built, and one row in the table once it is written.
C8_OneEntry ==
    (Collected /\ ~all) =>
        \A p \in Pkgs : DeclaredByTwo(p) =>
            /\ Count(dependencies, p) = 1
            /\ (pc \in {"dump", "block", "done"} \/ err = "file") =>
                  /\ Cardinality(EntriesOf(p)) = 1
                  /\ Cardinality(RowsOf(p)) = 1

\* the run has ended with the table written for a package two members declare
C8_Witness ==
    /\ pc = "done" /\ ~all
    /\ \E p \in Pkgs : DeclaredByTwo(p) /\ RowsOf(p) # {}

\* C9: nothing is on standard output before every selected package has its
\* tuple in the entry set; a failing collector or a failing read_dir ends the
\* run with nothing written.
C9_CollectThenRender ==
    /\ out # <<>> =>
          /\ pc \notin {"collect", "entries"}
          /\ \A i \in DOMAIN dependencies : EntriesOf(dependencies[i]) # {}
    /\ err \in {"get_one", "read_dir"} => out = <<>>

\* read_dir has failed on the second package, after the first was scanned
C9_Witness ==
    pc = "error" /\ err = "read_dir" /\ di = 2 /\ packages # <<>> /\ out = <<>>

\* C2 as stated: when a license file cannot be opened or read, nothing has
\* been written to standard output.
C2_NothingWrittenOnFileError ==
    err = "file" => out = <<>>

\* C2 amended: when a license file cannot be opened or read the run stops
\* and writes nothing more; by then the table and the BEGIN line of the
\* block at hand are on standard output, and the output is a proper prefix of
\* the complete report that ends before the file that failed.
C2_PrefixOnFileError ==
    err = "file" =>
        /\ pc = "error"
        /\ Len(out) > Len(Table(packages))
        /\ Len(out) < Len(FullReport(packages))
        /\ out = SubSeq(FullReport(packages), 1, Len(out))
        /\ FullReport(packages)[Len(out) + 1] = [t |-> "bytes", of |-> <<Head(files_left)>>]

\* the file that failed was not the first one written
C2_Witness ==
    /\ pc = "error" /\ err = "file"
    /\ \E i \in DOMAIN out : out[i].t = "bytes"

\* C7: when the run ends, what follows the table is, entry by entry, one
\* block for each entry with license files (BEGIN, the files once each in
\* locator order with NEXT LICENSE between consecutive files only, END) and
\* nothing for an entry without.
C7_BlockStructure ==
    pc = "done" =>
        SubSeq(out, Len(Table(packages)) + 1, Len(out)) = ExpectedDump(packages)

\* the run has ended with an entry of two license files and an entry of none
C7_Witness ==
    /\ pc = "done"
    /\ \E i \in DOMAIN packages, j \in DOMAIN packages :
          Len(packages[i].license_files) = 2 /\ packages[j].license_files = <<>>

\* C5: for license names A and B, "A OR B", "A/B" and "A AND B" all give
\* the license set {A, B} and the same display string.
C5_SeparatorInsensitive ==
    (pc = "classified" /\ input.kind = "pair") =>
        /\ licenses.tag = "Licenses"
        /\ Range(licenses.names) = {input.a, input.b}
        /\ Len(licenses.names) = Cardinality({input.a, input.b})
        /\ \A sep \in SepForms :
              fmt(package_licenses(Some(input.a \o sep \o input.b), license_file))
                  = licenses.display

\* "MIT AND Apache-2.0" has been classified
C5_Witness ==
    /\ pc = "classified" /\ input.kind = "pair"
    /\ input.a = S_MIT /\ input.b = S_APACHE /\ input.sep = <<" ", "A", "N", "D", " ">>
    /\ licenses.display = S_APACHE \o COMMA_SP \o S_MIT

\* C6: a license expression gives the explicit set whether or not a
\* license-file name is present; a license-file name alone gives the fixed
\* "Specified in license file"; neither gives the fixed "Missing".
C6_Priority ==
    pc = "classified" =>
        /\ license.some =>
              /\ licenses.tag = "Licenses"
              /\ licenses.display = join(licenses.names, COMMA_SP)
        /\ (~license.some /\ license_file.some) =>
              /\ licenses.tag = "File"
              /\ licenses.display = SPECIFIED_IN_FILE
        /\ (~license.some /\ ~license_file.some) =>
              /\ licenses.tag = "Missing"
              /\ licenses.display = MISSING

\* a package with both fields has been classified by its expression
C6_Witness ==
    /\ pc = "classified" /\ license.some /\ license_file.some
    /\ licenses.tag = "Licenses" /\ licenses.names # <<>>

\* C10 as stated: the license set never holds the empty string.
C10_NoEmptyToken ==
    (pc = "classified" /\ licenses.tag = "Licenses") =>
        \A i \in DOMAIN licenses.names : licenses.names[i] # <<>>

====
